---- MODULE Spec2Model ----
(***************************************************************************)
(* comanda: the chunker (SplitFile / CleanupChunks), the model registry    *)
(* (RegisterModels / RegisterFamilies / ValidateModel / GetModels), alone *)
(* under concurrent callers, the provider resolver (DetectProvider) and    *)
(* the step executor's defer dispatch, as state machines.                  *)
(*                                                                         *)
(* Text is a sequence of one-character strings, so that the conversions    *)
(* the code performs (line scanning, strings.Fields, strings.Join,         *)
(* strings.ToLower, strings.TrimSpace, strings.HasPrefix) are computed and *)
(* not assumed.                                                            *)
(***************************************************************************)
EXTENDS Integers, Sequences, FiniteSets, TLC

VARIABLES
    \* ---- chunker: the file system and the SplitFile call in flight ----
    pc,          \* position of the caller / of SplitFile
    arg,         \* the ChunkConfig the caller passed
    config,      \* SplitFile's own copy, as validateConfig left it
    file,        \* content found at filePath (NoFile: no such file)
    tempDir,     \* SplitFile's tempDir ("" before MkdirTemp)
    buffer,      \* lineBuffer / tokens
    count,       \* lineCount / fileSize / tokenCount
    start,       \* loop variable start / offset
    chunkIndex,  \* chunkIndex
    chunkPaths,  \* chunkPaths
    spans,       \* history: <<start, end>> of every chunk written so far
    result,      \* the *ChunkResult the caller holds (NIL: nil)
    err,         \* the error SplitFile returned
    dirs,        \* directories that exist under the temp root
    files,       \* dirs -> (chunk number -> content)
    last,        \* the last CleanupChunks call: its argument and its error
    \* ---- registry ----
    models,      \* ModelRegistry.models
    families,    \* ModelRegistry.families
    verdict,     \* the last ValidateModel call: provider, name, result
    registered,  \* number of Register calls made after construction
    held,        \* what a caller holds from a Get call, and what it did to it
    \* ---- resolver: the defaultDetectProvider call in flight ----
    rpc,         \* position of defaultDetectProvider
    asked,       \* its argument modelName
    supports,    \* the providers whose SupportsModel(asked) is true
    outcome,     \* what the GET of /api/tags came to, once made
    probed,      \* history: isModelAvailableLocally was called
    available,   \* what isModelAvailableLocally returned
    next,        \* position of the loop over providers
    detected,    \* the Provider returned ("": none yet)
    \* ---- step executor: one run of a pipeline ----
    epc,         \* position of the executor
    pipeline,    \* the pipeline description being run
    current,     \* the sequential step to execute next (END: none)
    pending,     \* the directive being dispatched
    resumeAt,    \* where progression resumes after the deferred step
    trace,       \* history: the steps executed, in order
    failed,      \* the run failed
    \* ---- registry under concurrent callers ----
    tpc,         \* thread -> position in its call
    top,         \* thread -> the call it makes
    tres,        \* thread -> what its call returned
    mu,          \* ModelRegistry.mu
    torn,        \* a map assignment is under way
    wholes       \* history: the registry after each Register call so far

chunkVars == <<pc, arg, config, file, tempDir, buffer, count, start,
               chunkIndex, chunkPaths, spans, result, err, dirs, files,
               last>>
regVars == <<models, families, verdict, registered>>
callerVars == <<held>>
resVars == <<rpc, asked, supports, outcome, probed, available, next,
             detected>>
execVars == <<epc, pipeline, current, pending, resumeAt, trace, failed>>
lockVars == <<tpc, top, tres, mu, torn, wholes>>
vars == <<chunkVars, regVars, callerVars, resVars, execVars, lockVars>>

----------------------------------------------------------------------------
(* Bounds of the model *)

\* longest input file, in bytes
MaxLen == 3
\* largest ChunkConfig.Size drawn
MaxSize == 2
\* largest ChunkConfig.Overlap drawn
MaxOverlap == 2
\* largest ChunkConfig.MaxChunks drawn
MaxMaxChunks == 2
\* Register calls made after construction
MaxRegister == 2
\* writes a caller makes to the value a Get call returned
MaxWrites == 1
\* models the local backend lists in its answer
MaxTags == 2
\* steps one run of a pipeline executes
MaxSteps == 4
\* threads that call the registry at the same time
MaxThreads == 3

----------------------------------------------------------------------------
(* Text *)

NL == "\n"
SP == " "

\* unicode.IsSpace, on the characters the model uses
IsSpace(c) == c \in {" ", "\n", "\t", "\r", "\f"}

UpperCase == <<"A","B","C","D","E","F","G","H","I","J","K","L","M",
               "N","O","P","Q","R","S","T","U","V","W","X","Y","Z">>
LowerCase == <<"a","b","c","d","e","f","g","h","i","j","k","l","m",
               "n","o","p","q","r","s","t","u","v","w","x","y","z">>

LowerChar(c) ==
    IF \E i \in 1..26 : UpperCase[i] = c
    THEN LowerCase[CHOOSE i \in 1..26 : UpperCase[i] = c]
    ELSE c

\* strings.ToLower
ToLower(s) == [i \in 1..Len(s) |-> LowerChar(s[i])]

\* strings.HasPrefix
HasPrefix(s, p) == Len(p) <= Len(s) /\ SubSeq(s, 1, Len(p)) = p

\* strings.TrimSpace
TrimSpace(s) ==
    LET keep == {i \in 1..Len(s) : ~IsSpace(s[i])}
    IN  IF keep = {} THEN <<>>
        ELSE SubSeq(s, CHOOSE i \in keep : \A j \in keep : i <= j,
                       CHOOSE i \in keep : \A j \in keep : j <= i)

\* strings.Join
RECURSIVE Join(_, _)
Join(elems, sep) ==
    IF elems = <<>> THEN <<>>
    ELSE IF Len(elems) = 1 THEN elems[1]
    ELSE elems[1] \o sep \o Join(Tail(elems), sep)

\* position of the first c in s, 0 when there is none
IndexOf(s, c) ==
    IF \E i \in 1..Len(s) : s[i] = c
    THEN CHOOSE i \in 1..Len(s) : s[i] = c /\ \A j \in 1..(i-1) : s[j] # c
    ELSE 0

\* bufio.ScanLines' dropCR
DropCR(line) ==
    IF Len(line) > 0 /\ line[Len(line)] = "\r"
    THEN SubSeq(line, 1, Len(line) - 1) ELSE line

\* the lines bufio.Scanner yields for s: split at each "\n", a trailing "\r"
\* dropped, and a last unterminated line yielded only when it is not empty
RECURSIVE ScanLines(_)
ScanLines(s) ==
    IF s = <<>> THEN <<>>
    ELSE LET k == IndexOf(s, NL)
         IN  IF k = 0 THEN <<DropCR(s)>>
             ELSE <<DropCR(SubSeq(s, 1, k - 1))>>
                  \o ScanLines(SubSeq(s, k + 1, Len(s)))

\* strings.Fields: the maximal runs of non-space characters
RECURSIVE Fields(_)
Fields(s) ==
    LET word == {i \in 1..Len(s) : ~IsSpace(s[i])}
    IN  IF word = {} THEN <<>>
        ELSE LET b == CHOOSE i \in word : \A j \in word : i <= j
                 gap == {i \in b..Len(s) : IsSpace(s[i])}
                 e == IF gap = {} THEN Len(s) + 1
                      ELSE CHOOSE i \in gap : \A j \in gap : i <= j
             IN  <<SubSeq(s, b, e - 1)>> \o Fields(SubSeq(s, e, Len(s)))

\* splitByTokens' read loop: the fields of every scanned line, in order
RECURSIVE FieldsOfLines(_)
FieldsOfLines(lines) ==
    IF lines = <<>> THEN <<>>
    ELSE Fields(lines[1]) \o FieldsOfLines(Tail(lines))

----------------------------------------------------------------------------
(* Chunker: values *)

\* a nil *ChunkResult
NIL == [nil |-> TRUE]

ByLines  == <<"l","i","n","e","s">>
ByBytes  == <<"b","y","t","e","s">>
ByTokens == <<"t","o","k","e","n","s">>
\* a recognised method in another letter case, and an unrecognised one
ByMixed  == <<"B","y","t","e","s">>
ByWords  == <<"w","o","r","d","s">>

\* the default validateConfig gives MaxChunks
DefaultMaxChunks == 100

\* the one name os.MkdirTemp("", "comanda-chunks-*") can draw here, and a
\* directory of the same temp root that belongs to somebody else
TempNames == {"comanda-chunks-1"}
OtherDir == "comanda-chunks-0"
OtherFiles == (0 :> <<"a">>)

Alphabet == {"a", SP, NL}

Digit == <<"0","1","2","3","4","5","6","7","8","9">>

\* the 25-line file of the documented scenario: lines "00" .. "24", each
\* terminated by a newline
RECURSIVE NumberedLines(_)
NumberedLines(n) ==
    IF n = 0 THEN <<>>
    ELSE NumberedLines(n - 1)
         \o <<Digit[((n - 1) \div 10) + 1], Digit[((n - 1) % 10) + 1], NL>>

ScenarioFile == [exists |-> TRUE, data |-> NumberedLines(25)]
ScenarioConfig == [By |-> ByLines, Size |-> 10, Overlap |-> 2, MaxChunks |-> 3]

\* a file of four lines (the second one empty) and four tokens
LongFile == [exists |-> TRUE,
             data |-> <<"a", NL, NL, "a", SP, "a", NL, "a">>]

NoFile == [exists |-> FALSE, data |-> <<>>]

Inputs ==
    {[exists |-> TRUE, data |-> d] :
        d \in UNION {[1..k -> Alphabet] : k \in 0..MaxLen}}
    \cup {NoFile, ScenarioFile, LongFile}

Configs ==
    [By : {ByLines, ByBytes, ByTokens, ByMixed, ByWords},
     Size : -1..MaxSize,
     Overlap : -1..MaxOverlap,
     MaxChunks : 0..MaxMaxChunks]
    \cup {ScenarioConfig}

NoConfig == [By |-> <<>>, Size |-> 0, Overlap |-> 0, MaxChunks |-> 0]

\* a ChunkResult whose TempDir is empty
EmptyResult == [ChunkPaths |-> <<>>, TempDir |-> "", TotalChunks |-> 0]

----------------------------------------------------------------------------
(* Chunker: helpers *)

\* faulty variant: the lookup without strings.ToLower
ValidMethodCaseSensitive(by) == by \in {ByLines, ByBytes, ByTokens}

\* the validMethods lookup of validateConfig
ValidMethod(by) == ToLower(by) \in {ByLines, ByBytes, ByTokens}

\* validateConfig: the error it returns and the config it leaves behind
validateConfig(c) ==
    IF ~ValidMethod(c.By)
    THEN [err |-> "invalid split method", config |-> c]
    ELSE IF c.Size <= 0
    THEN [err |-> "chunk size must be greater than 0", config |-> c]
    ELSE [err |-> "nil",
          config |-> [c EXCEPT
              !.Overlap = IF c.Overlap < 0 THEN 0 ELSE c.Overlap,
              !.MaxChunks = IF c.MaxChunks <= 0 THEN DefaultMaxChunks
                            ELSE c.MaxChunks]]

\* faulty variant: the chunk count rounded down
TotalChunksFloor(total, c) == total \div c.Size

\* "Calculate how many chunks we'll create"
TotalChunks(total, c) == (total + c.Size - 1) \div c.Size

\* the pre-check: TRUE when the split is refused
LimitExceeded(total, c) == TotalChunks(total, c) > c.MaxChunks

\* faulty variant: no special case for the empty file
IsEmptyFileNever(total) == FALSE

\* "If the file is empty, return an empty chunk"
IsEmptyFile(total) == total = 0

\* faulty variant: the loop advances by the chunk size, whatever the overlap
AdvanceIgnoringOverlap(c) == c.Size

\* the loop's increment
Advance(c) == c.Size - c.Overlap

\* faulty variant: every chunk one unit short
ChunkEndOneShort(s, total, c) ==
    IF s + c.Size - 1 > total THEN total ELSE s + c.Size - 1

\* end of the chunk that starts at s
ChunkEnd(s, total, c) ==
    IF s + c.Size > total THEN total ELSE s + c.Size

\* faulty variant: the loop without its guard
CapNever(idx, c) == FALSE

\* the loop's guard against the chunk limit: TRUE when the loop breaks
CapReached(idx, c) == idx >= c.MaxChunks

\* filepath.Join(tempDir, "chunk_<i>.txt")
ChunkPath(dir, i) == <<dir, i>>

\* the separator the method joins its units with
Separator(by) == IF ToLower(by) = ByLines THEN <<NL>> ELSE <<SP>>

\* the units the method splits f into: lines, bytes, tokens
Units(by, f) ==
    IF ToLower(by) = ByLines THEN ScanLines(f.data)
    ELSE IF ToLower(by) = ByTokens THEN FieldsOfLines(ScanLines(f.data))
    ELSE [i \in 1..Len(f.data) |-> <<f.data[i]>>]

\* the bytes written for units [s, e) of the input
ChunkContent(by, f, buf, s, e) ==
    IF ToLower(by) = ByBytes THEN SubSeq(f.data, s + 1, e)
    ELSE Join(SubSeq(buf, s + 1, e), Separator(by))

\* os.WriteFile(path, content): creates or overwrites
WriteFile(fs, path, content) ==
    [fs EXCEPT ![path[1]] =
        [i \in DOMAIN fs[path[1]] \cup {path[2]} |->
            IF i = path[2] THEN content ELSE fs[path[1]][i]]]

\* os.RemoveAll(dir): the directories left; no error when dir does not exist
RemoveAllDirs(ds, dir) == ds \ {dir}

\* CleanupChunks' guard: TRUE when it returns without touching storage
NothingToClean(r) == r = NIL \/ r.TempDir = ""

\* faulty variant: removal that fails when the directory is gone (os.Remove)
CleanupErrorStrict(ds, r) ==
    IF NothingToClean(r) \/ r.TempDir \in ds THEN "nil"
    ELSE "no such file or directory"

\* the error CleanupChunks returns: nil from the guard, and os.RemoveAll
\* returns nil also when the path does not exist
CleanupError(ds, r) == "nil"

----------------------------------------------------------------------------
(* Chunker: SplitFile and CleanupChunks *)

\* SplitFile returns (result, nil)
ReturnResult(paths, n) ==
    /\ result' = [ChunkPaths |-> paths, TempDir |-> tempDir, TotalChunks |-> n]
    /\ err' = "nil"
    /\ pc' = "done"

\* a split method failed: SplitFile removes tempDir and returns (nil, e)
ReturnError(e) ==
    /\ dirs' = RemoveAllDirs(dirs, tempDir)
    /\ files' = [d \in RemoveAllDirs(dirs, tempDir) |-> files[d]]
    /\ result' = NIL
    /\ err' = e
    /\ pc' = "done"

\* the caller calls SplitFile(filePath, config), once in a behaviour;
\* SplitFile validates its copy of config and returns at once when
\* validateConfig fails
SplitFile ==
    /\ pc = "idle"
    /\ \E f \in Inputs, c \in Configs :
        LET v == validateConfig(c)
        IN  /\ file' = f
            /\ arg' = c
            /\ config' = v.config
            /\ err' = v.err
            /\ pc' = IF v.err = "nil" THEN "mkdir" ELSE "done"
    /\ result' = NIL
    /\ tempDir' = ""
    /\ buffer' = <<>>
    /\ count' = 0
    /\ start' = 0
    /\ chunkIndex' = 0
    /\ chunkPaths' = <<>>
    /\ spans' = <<>>
    /\ last' = NIL
    /\ UNCHANGED <<dirs, files, regVars, callerVars, resVars, execVars, lockVars>>

\* os.MkdirTemp("", "comanda-chunks-*"): a directory that did not exist
MkdirTemp ==
    /\ pc = "mkdir"
    /\ \E d \in TempNames \ dirs :
        /\ tempDir' = d
        /\ dirs' = dirs \cup {d}
        /\ files' = [x \in dirs \cup {d} |-> IF x = d THEN <<>> ELSE files[x]]
    /\ pc' = "split"
    /\ UNCHANGED <<arg, config, file, buffer, count, start, chunkIndex,
                   chunkPaths, spans, result, err, last, regVars, callerVars, resVars, execVars, lockVars>>

\* splitByLines / splitByBytes / splitByTokens up to the loop: open and scan
\* the file, the empty-file case, the chunk-count pre-check
ScanFile ==
    /\ pc = "split"
    /\ IF ~file.exists
       THEN /\ ReturnError("failed to open file")
            /\ UNCHANGED <<buffer, count, chunkPaths, spans>>
       ELSE LET units == Units(config.By, file)
                total == Len(units)
            IN  /\ buffer' = IF ToLower(config.By) = ByBytes THEN <<>> ELSE units
                /\ count' = total
                /\ IF IsEmptyFile(total)
                   THEN /\ files' = WriteFile(files, ChunkPath(tempDir, 0), <<>>)
                        /\ chunkPaths' = <<ChunkPath(tempDir, 0)>>
                        /\ spans' = <<<<0, 0>>>>
                        /\ ReturnResult(<<ChunkPath(tempDir, 0)>>, 1)
                        /\ UNCHANGED dirs
                   ELSE IF LimitExceeded(total, config)
                   THEN /\ ReturnError("exceeding the maximum")
                        /\ UNCHANGED <<chunkPaths, spans>>
                   ELSE /\ pc' = "loop"
                        /\ UNCHANGED <<chunkPaths, spans, result, err, dirs,
                                       files>>
    /\ UNCHANGED <<arg, config, file, tempDir, start, chunkIndex, last, regVars, callerVars, resVars, execVars, lockVars>>

\* one pass of the "Create chunks" loop, from the loop condition on
EmitChunk ==
    /\ pc = "loop"
    /\ IF start < count /\ ~CapReached(chunkIndex, config)
       THEN LET end == ChunkEnd(start, count, config)
                path == ChunkPath(tempDir, chunkIndex)
            IN  IF start < 0
                THEN IF ToLower(config.By) = ByBytes
                     \* file.Seek(offset) fails for a negative offset
                     THEN /\ ReturnError("failed to seek")
                          /\ UNCHANGED <<start, chunkIndex, chunkPaths, spans>>
                     \* lineBuffer[start:end] / tokens[start:end] panics
                     ELSE /\ pc' = "panic"
                          /\ UNCHANGED <<start, chunkIndex, chunkPaths, spans,
                                         result, err, dirs, files>>
                ELSE /\ files' = WriteFile(files, path,
                            ChunkContent(config.By, file, buffer, start, end))
                     /\ chunkPaths' = Append(chunkPaths, path)
                     /\ spans' = Append(spans, <<start, end>>)
                     /\ chunkIndex' = chunkIndex + 1
                     /\ UNCHANGED dirs
                     /\ IF end >= count
                        THEN /\ ReturnResult(Append(chunkPaths, path),
                                             chunkIndex + 1)
                             /\ UNCHANGED start
                        ELSE /\ start' = start + Advance(config)
                             /\ UNCHANGED <<pc, result, err>>
       ELSE /\ ReturnResult(chunkPaths, chunkIndex)
            /\ UNCHANGED <<start, chunkIndex, chunkPaths, spans, dirs, files>>
    /\ UNCHANGED <<arg, config, file, tempDir, buffer, count, last, regVars, callerVars, resVars, execVars, lockVars>>

\* the caller calls CleanupChunks(r) with nil, with a result that has no
\* TempDir, or with the result it holds (released before or not)
CleanupChunks ==
    /\ pc \in {"idle", "done"}
    /\ \E r \in {NIL, EmptyResult, result} :
        /\ last' = [arg |-> r, err |-> CleanupError(dirs, r),
                     existed |-> ~NothingToClean(r) /\ r.TempDir \in dirs]
        /\ IF NothingToClean(r)
           THEN UNCHANGED <<dirs, files>>
           ELSE /\ dirs' = RemoveAllDirs(dirs, r.TempDir)
                /\ files' = [d \in RemoveAllDirs(dirs, r.TempDir) |-> files[d]]
    /\ UNCHANGED <<pc, arg, config, file, tempDir, buffer, count, start,
                   chunkIndex, chunkPaths, spans, result, err, regVars, callerVars, resVars, execVars, lockVars>>

----------------------------------------------------------------------------
(* Registry: values *)

\* what initializeDefaultModels registers, provider by provider
SeedModels ==
    [anthropic |-> <<
        <<"c","l","a","u","d","e","-","3","-","5","-","s","o","n","n","e","t","-","2","0","2","4","1","0","2","2">>,
        <<"c","l","a","u","d","e","-","3","-","5","-","s","o","n","n","e","t","-","l","a","t","e","s","t">>,
        <<"c","l","a","u","d","e","-","3","-","5","-","h","a","i","k","u","-","l","a","t","e","s","t">>,
        <<"c","l","a","u","d","e","-","3","-","7","-","s","o","n","n","e","t","-","2","0","2","5","0","2","1","9">>,
        <<"c","l","a","u","d","e","-","3","-","7","-","s","o","n","n","e","t","-","l","a","t","e","s","t">>,
        <<"c","l","a","u","d","e","-","3","-","5","-","h","a","i","k","u","-","2","0","2","4","1","0","2","2">>,
        <<"c","l","a","u","d","e","-","o","p","u","s","-","4","-","2","0","2","5","0","5","1","4">>,
        <<"c","l","a","u","d","e","-","s","o","n","n","e","t","-","4","-","2","0","2","5","0","5","1","4">>>>,
     openai |-> <<
        <<"g","p","t","-","4","o">>,
        <<"g","p","t","-","4","o","-","a","u","d","i","o","-","p","r","e","v","i","e","w">>,
        <<"o","1">>,
        <<"o","3","-","m","i","n","i">>,
        <<"o","1","-","p","r","o">>,
        <<"o","4","-","m","i","n","i">>,
        <<"g","p","t","-","4",".","1">>,
        <<"o","3","-","p","r","o">>,
        <<"o","3">>,
        <<"c","h","a","t","g","p","t","-","4","o","-","l","a","t","e","s","t">>>>,
     xai |-> <<
        <<"g","r","o","k","-","b","e","t","a">>,
        <<"g","r","o","k","-","v","i","s","i","o","n","-","b","e","t","a">>,
        <<"g","r","o","k","-","4">>,
        <<"g","r","o","k","-","4","-","h","e","a","v","y">>>>,
     deepseek |-> <<
        <<"d","e","e","p","s","e","e","k","-","c","h","a","t">>,
        <<"d","e","e","p","s","e","e","k","-","c","o","d","e","r">>,
        <<"d","e","e","p","s","e","e","k","-","v","i","s","i","o","n">>,
        <<"d","e","e","p","s","e","e","k","-","r","e","a","s","o","n","e","r">>>>,
     google |-> <<
        <<"g","e","m","i","n","i","-","2",".","5","-","p","r","o">>,
        <<"g","e","m","i","n","i","-","2",".","5","-","f","l","a","s","h">>,
        <<"g","e","m","i","n","i","-","2",".","5","-","f","l","a","s","h","-","l","i","t","e">>,
        <<"g","e","m","i","n","i","-","1",".","5","-","f","l","a","s","h">>,
        <<"g","e","m","i","n","i","-","1",".","5","-","p","r","o">>,
        <<"g","e","m","i","n","i","-","1",".","0","-","p","r","o">>,
        <<"a","q","a">>>>,
     moonshot |-> <<
        <<"m","o","o","n","s","h","o","t","-","v","1","-","8","k">>,
        <<"m","o","o","n","s","h","o","t","-","v","1","-","3","2","k">>,
        <<"m","o","o","n","s","h","o","t","-","v","1","-","1","2","8","k">>,
        <<"m","o","o","n","s","h","o","t","-","v","1","-","a","u","t","o">>>>]

SeedFamilies ==
    [anthropic |-> <<
        <<"c","l","a","u","d","e","-","3","-","5","-","s","o","n","n","e","t">>,
        <<"c","l","a","u","d","e","-","3","-","5","-","h","a","i","k","u">>,
        <<"c","l","a","u","d","e","-","3","-","7","-","s","o","n","n","e","t">>,
        <<"c","l","a","u","d","e","-","o","p","u","s","-","4">>,
        <<"c","l","a","u","d","e","-","s","o","n","n","e","t","-","4">>>>,
     google |-> <<
        <<"g","e","m","i","n","i","-","1",".","5">>,
        <<"g","e","m","i","n","i","-","2",".","5">>>>,
     moonshot |-> <<
        <<"m","o","o","n","s","h","o","t","-">>>>]


\* names used by the calls of the model
MOONSHOT8K == <<"m","o","o","n","s","h","o","t","-","v","1","-","8","k">>
MOONSHOTV2 == <<"m","o","o","n","s","h","o","t","-","v","2","-","f","u","t","u","r","e">>
MOONSHOTX == <<"m","o","o","n","s","h","o","t","-","x">>
NOTMOONSHOT == <<"n","o","t","-","m","o","o","n","s","h","o","t","-","v","1">>
INVALID == <<"i","n","v","a","l","i","d","-","m","o","d","e","l">>
GPT4O == <<"g","p","t","-","4","o">>
K2LOWER == <<"k","2">>
K2DASH == <<"k","2","-">>
K2DASHX == <<"k","2","-","x">>
K2UPPER == <<"K","2">>
K2PADDED == <<"k","2"," ">>

\* the providers the calls of the model name: one the constructor seeded and
\* one it did not
CallProviders == {"moonshot", "ollama"}

\* the name lists the calls of the model register: a lower-case name that
\* ends like a family, and names in upper case or padded with a space
RegisterLists == {<<K2DASH>>, <<K2UPPER, K2PADDED>>}

\* strings.ToUpper, to draw the letter-case variants of a name
ToUpper(s) ==
    [i \in 1..Len(s) |->
        IF \E k \in 1..26 : LowerCase[k] = s[i]
        THEN UpperCase[CHOOSE k \in 1..26 : LowerCase[k] = s[i]]
        ELSE s[i]]

Padded(s) == <<" ">> \o s \o <<"\t">>

\* a name and its variants in letter case and surrounding white space
Variants(n) == {n, ToUpper(n), Padded(n), Padded(ToUpper(n))}

BaseNames ==
    {MOONSHOT8K, MOONSHOTV2, MOONSHOTX, NOTMOONSHOT, <<>>, INVALID, GPT4O,
     K2LOWER, K2DASH, K2DASHX, K2PADDED}

\* the names the calls of the model validate
Probes == UNION {Variants(n) : n \in BaseNames}

----------------------------------------------------------------------------
(* Registry: operations *)

\* r.models[provider] / r.families[provider]: nil for a provider not in the map
Lookup(m, provider) == IF provider \in DOMAIN m THEN m[provider] ELSE <<>>

\* faulty variant: assignment in place of append, m[provider] = names
AppendedReplacing(m, provider, names) ==
    [p \in DOMAIN m \cup {provider} |-> IF p = provider THEN names ELSE m[p]]

\* append(m[provider], names...)
Appended(m, provider, names) ==
    [p \in DOMAIN m \cup {provider} |->
        IF p = provider THEN Lookup(m, provider) \o names ELSE m[p]]

\* "Trim whitespace and convert to lowercase"
NormalizeName(modelName) == TrimSpace(ToLower(modelName))

\* the "Check exact matches" loop
RECURSIVE ExactMatch(_, _)
ExactMatch(valid, modelName) ==
    IF valid = <<>> THEN FALSE
    ELSE IF modelName = Head(valid) THEN TRUE
    ELSE ExactMatch(Tail(valid), modelName)

\* faulty variant: the family anywhere in the name (strings.Contains)
FamilyTestContains(modelName, family) ==
    \E k \in 0..(Len(modelName) - Len(family)) :
        SubSeq(modelName, k + 1, k + Len(family)) = family

\* the test the "Check model families" loop applies to each family
FamilyTest(modelName, family) == HasPrefix(modelName, family)

\* the "Check model families" loop
RECURSIVE FamilyMatch(_, _)
FamilyMatch(fams, modelName) ==
    IF fams = <<>> THEN FALSE
    ELSE IF FamilyTest(modelName, Head(fams)) THEN TRUE
    ELSE FamilyMatch(Tail(fams), modelName)

\* the body of ValidateModel, on the maps ms (r.models) and fs (r.families)
ValidateIn(ms, fs, provider, modelName) ==
    \/ ExactMatch(Lookup(ms, provider), NormalizeName(modelName))
    \/ FamilyMatch(Lookup(fs, provider), NormalizeName(modelName))

\* ModelRegistry.ValidateModel
ValidateModel(provider, modelName) ==
    ValidateIn(models, families, provider, modelName)

NoVerdict == [asked |-> FALSE, provider |-> "", name |-> <<>>, ok |-> FALSE]

\* the names RegisterModels stores for the names it is given
StoredNames(names) == names

RegisterModels ==
    /\ registered < MaxRegister
    /\ \E p \in CallProviders, names \in RegisterLists :
        models' = Appended(models, p, StoredNames(names))
    /\ registered' = registered + 1
    /\ verdict' = NoVerdict
    /\ UNCHANGED <<families, chunkVars, callerVars, resVars, execVars, lockVars>>

RegisterFamilies ==
    /\ registered < MaxRegister
    /\ \E p \in CallProviders, names \in RegisterLists :
        families' = Appended(families, p, names)
    /\ registered' = registered + 1
    /\ verdict' = NoVerdict
    /\ UNCHANGED <<models, chunkVars, callerVars, resVars, execVars, lockVars>>

\* a caller calls ValidateModel; the model keeps the verdict until the next
\* Register call
ValidateModelCall ==
    /\ ~verdict.asked
    /\ \E p \in CallProviders, n \in Probes :
        verdict' = [asked |-> TRUE, provider |-> p, name |-> n,
                   ok |-> ValidateModel(p, n)]
    /\ UNCHANGED <<models, families, registered, chunkVars, callerVars, resVars, execVars, lockVars>>

----------------------------------------------------------------------------
(* Registry: the Get operations and the caller that holds their results *)

\* a slice as a caller sees it: its elements, and whether it shares its
\* backing array with the registry's own slice
\* r.models[provider] itself, as GetModels and GetFamilies return it
SliceOf(list) == [items |-> list, shared |-> Len(list) > 0]

\* faulty variant: the shallow copy, result[provider] = models
CopyOfShallow(list) == SliceOf(list)

\* append([]string{}, models...): the elements in a backing array of its own
CopyOf(list) == [items |-> list, shared |-> FALSE]

\* nothing held
NoHeld == [kind |-> "none", of |-> "", value |-> <<>>, writes |-> 0]

\* ModelRegistry.GetModels
GetModels ==
    /\ held = NoHeld
    /\ \E p \in CallProviders :
        held' = [kind |-> "GetModels", of |-> "models",
                 value |-> [q \in {p} |-> SliceOf(Lookup(models, p))],
                 writes |-> 0]
    /\ verdict' = NoVerdict
    /\ UNCHANGED <<models, families, registered, chunkVars, resVars, execVars, lockVars>>

\* ModelRegistry.GetFamilies
GetFamilies ==
    /\ held = NoHeld
    /\ \E p \in CallProviders :
        held' = [kind |-> "GetFamilies", of |-> "families",
                 value |-> [q \in {p} |-> SliceOf(Lookup(families, p))],
                 writes |-> 0]
    /\ verdict' = NoVerdict
    /\ UNCHANGED <<models, families, registered, chunkVars, resVars, execVars, lockVars>>

\* ModelRegistry.GetAllModels: a new map, one copied list per provider
GetAllModels ==
    /\ held = NoHeld
    /\ held' = [kind |-> "GetAllModels", of |-> "models",
                value |-> [p \in DOMAIN models |-> CopyOf(models[p])],
                writes |-> 0]
    /\ verdict' = NoVerdict
    /\ UNCHANGED <<models, families, registered, chunkVars, resVars, execVars, lockVars>>

\* the registry's map the held value was read from
HeldMap == IF held.of = "models" THEN models ELSE families

\* a write to element i of the held list of p lands in the registry's list
\* when the two share a backing array: always while the registry's list is
\* as long as it was, and after an append only if that append found room in
\* the array (reach says which)
Lands(p, reach) ==
    /\ held.value[p].shared
    /\ p \in DOMAIN HeldMap
    /\ Len(HeldMap[p]) > Len(held.value[p].items) => reach

\* the caller assigns to an element of a list it holds: s[i] = x
CallerSetElement ==
    /\ held.kind # "none"
    /\ held.writes < MaxWrites
    /\ \E p \in DOMAIN held.value \cap CallProviders :
       \E i \in {1, Len(held.value[p].items)} \ {0}, reach \in BOOLEAN :
        /\ held' = [held EXCEPT !.value[p].items[i] = INVALID,
                                !.writes = @ + 1]
        /\ IF Lands(p, reach)
           THEN IF held.of = "models"
                THEN /\ models' = [models EXCEPT ![p][i] = INVALID]
                     /\ UNCHANGED families
                ELSE /\ families' = [families EXCEPT ![p][i] = INVALID]
                     /\ UNCHANGED models
           ELSE UNCHANGED <<models, families>>
    /\ verdict' = NoVerdict
    /\ UNCHANGED <<registered, chunkVars, resVars, execVars, lockVars>>

\* the caller deletes an entry of the map GetAllModels returned, which
\* make() created for this call: delete(m, p)
CallerDeleteKey ==
    /\ held.kind = "GetAllModels"
    /\ held.writes < MaxWrites
    /\ \E p \in DOMAIN held.value \cap CallProviders :
        held' = [held EXCEPT
                    !.value = [q \in DOMAIN held.value \ {p} |-> held.value[q]],
                    !.writes = @ + 1]
    /\ UNCHANGED <<regVars, chunkVars, resVars, execVars, lockVars>>

----------------------------------------------------------------------------
(* Resolver: values *)

\* the local provider, and the hosted ones in the order of the providers slice
ollamaProvider == "ollama"
providers == <<"google", "anthropic", "xai", "deepseek", "moonshot", "openai">>

\* the model names the calls of the model resolve
LLAMA3 == <<"l","l","a","m","a","3">>
LLAMA3UPPER == <<"L","L","A","M","A","3">>
LLAMA == <<"l","l","a","m","a">>
LLAMA32 == <<"l","l","a","m","a","3",".","2">>
ResolverNames == {LLAMA3, LLAMA3UPPER, LLAMA, LLAMA32, <<>>}

\* the names the local backend may list
TAGLATEST == <<"l","l","a","m","a","3",":","l","a","t","e","s","t">>
TAGDOTTED == <<"L","l","a","m","a","3",".","2",":","l","a","t","e","s","t">>
TAGOTHER == <<"l","l","a","m","a","3","3">>
TagNames == {TAGLATEST, TAGDOTTED, TAGOTHER}

RECURSIVE SeqsUpTo(_, _)
SeqsUpTo(S, n) ==
    IF n = 0 THEN {<<>>}
    ELSE SeqsUpTo(S, n - 1) \cup
         {Append(q, x) : q \in {r \in SeqsUpTo(S, n - 1) : Len(r) = n - 1},
                         x \in S}

\* what the GET of http://localhost:11434/api/tags can come to: no
\* connection, a status other than 200, a body that cannot be read, a body
\* that is not the JSON expected, or a list of models
NoOutcome == [kind |-> "none", models |-> <<>>]
Outcomes ==
    {[kind |-> k, models |-> <<>>] :
        k \in {"transport", "status", "read", "malformed"}}
    \cup {[kind |-> "ok", models |-> t] : t \in SeqsUpTo(TagNames, MaxTags)}

----------------------------------------------------------------------------
(* Resolver: isModelAvailableLocally and defaultDetectProvider *)

\* strings.Split(s, ":")[0]
BeforeColon(s) ==
    IF \E i \in 1..Len(s) : s[i] = ":"
    THEN SubSeq(s, 1, IndexOf(s, ":") - 1)
    ELSE s

\* the three tests of the loop body, for one listed model
TagMatches(modelFullName, modelNameLower) ==
    \/ modelFullName = modelNameLower
    \/ /\ \E i \in 1..Len(modelFullName) : modelFullName[i] = ":"
       /\ BeforeColon(modelFullName) = modelNameLower
    \/ /\ HasPrefix(modelFullName, modelNameLower)
       /\ LET nextChar == SubSeq(modelFullName, Len(modelNameLower) + 1,
                                 Len(modelFullName))
          IN  HasPrefix(nextChar, <<":">>) \/ HasPrefix(nextChar, <<".">>)

\* faulty variant: a failed request taken for a model that is present
ProbeFailsOpen(o, name) ==
    \/ o.kind # "ok"
    \/ \E i \in 1..Len(o.models) : TagMatches(ToLower(o.models[i]), ToLower(name))

\* isModelAvailableLocally
isModelAvailableLocally(o, name) ==
    /\ o.kind = "ok"
    /\ \E i \in 1..Len(o.models) : TagMatches(ToLower(o.models[i]), ToLower(name))

\* faulty variant: the local detected only when no hosted detected matches
LocalAfterHosted(sup, avail) ==
    avail /\ \A i \in 1..Len(providers) : providers[i] \notin sup

\* step 1 returns ollamaProvider
LocalFirst(sup, avail) == avail

\* faulty variant: the catch-all detected tried first
OrderGeneralFirst(i) == providers[Len(providers) + 1 - i]

\* the i-th detected the loop tries
Tried(i) == providers[i]

\* the caller calls DetectProvider(asked); ollamaProvider.SupportsModel
DetectProvider ==
    /\ rpc = "idle"
    /\ \E n \in ResolverNames,
          s \in SUBSET ({ollamaProvider} \cup {providers[i] : i \in 1..Len(providers)}) :
        /\ asked' = n
        /\ supports' = s
        /\ rpc' = IF ollamaProvider \in s THEN "probe" ELSE "hosted"
    /\ next' = 1
    /\ UNCHANGED <<outcome, probed, available, detected,
                   chunkVars, regVars, callerVars, execVars, lockVars>>

\* isModelAvailableLocally(asked), and the return of ollamaProvider
ProbeLocal ==
    /\ rpc = "probe"
    /\ \E o \in Outcomes :
        /\ outcome' = o
        /\ available' = isModelAvailableLocally(o, asked)
        /\ IF LocalFirst(supports, isModelAvailableLocally(o, asked))
           THEN detected' = ollamaProvider /\ rpc' = "done"
           ELSE detected' = detected /\ rpc' = "hosted"
    /\ probed' = TRUE
    /\ UNCHANGED <<asked, supports, next, chunkVars, regVars, callerVars, execVars, lockVars>>

\* one pass of the loop over providers
TryHosted ==
    /\ rpc = "hosted"
    /\ next <= Len(providers)
    /\ IF Tried(next) \in supports
       THEN detected' = Tried(next) /\ rpc' = "done" /\ next' = next
       ELSE detected' = detected /\ rpc' = rpc /\ next' = next + 1
    /\ UNCHANGED <<asked, supports, outcome, probed, available,
                   chunkVars, regVars, callerVars, execVars, lockVars>>

\* "fall back to Ollama as a catch-all"
Fallback ==
    /\ rpc = "hosted"
    /\ next > Len(providers)
    /\ detected' = ollamaProvider
    /\ rpc' = "done"
    /\ UNCHANGED <<asked, supports, outcome, probed, available, next,
                   chunkVars, regVars, callerVars, execVars, lockVars>>

----------------------------------------------------------------------------
(* Step executor: values *)

END == "END"

\* a step configuration: its declared input and its declared next step
\* ("": none declared)
StepConfig(input, nextAction) == [input |-> input, next |-> nextAction]

\* the example pipeline (one regular step, two deferred ones) followed by a
\* second regular step, and a pipeline whose first step declares a next
\* step, as does its deferred step
PoemPipeline ==
    [order |-> <<"determine_poem_type", "summarize">>,
     steps |-> [determine_poem_type |-> StepConfig("STDIN", ""),
                summarize |-> StepConfig("STDIN", "")],
     deferred |-> [analyze_haiku |-> StepConfig("STDIN", ""),
                   analyze_sonnet |-> StepConfig("STDIN", "")]]
JumpPipeline ==
    [order |-> <<"classify", "skipped", "report">>,
     steps |-> [classify |-> StepConfig("NA", "report"),
                skipped |-> StepConfig("STDIN", ""),
                report |-> StepConfig("STDIN", "")],
     deferred |-> [escalate |-> StepConfig("ticket", "skipped")]]
NoPipeline == [order |-> <<>>, steps |-> <<>>, deferred |-> <<>>]
Pipelines == {PoemPipeline, JumpPipeline}

\* what a step may return: prose, or a JSON object, given as its members
Prose == [kind |-> "text", members |-> <<>>]
Object(members) == [kind |-> "object", members |-> members]
StepOutputs ==
    {Prose,
     Object(<<<<"step", "analyze_haiku">>, <<"input", "five-seven-five">>>>),
     Object(<<<<"step", "analyze_sonnet">>>>),
     Object(<<<<"step", "escalate">>, <<"input", "urgent">>>>),
     Object(<<<<"step", "no_such_step">>>>),
     Object(<<<<"step", "report">>>>),
     Object(<<<<"input", "five-seven-five">>>>)}

NoDirective == [ok |-> FALSE, step |-> "", hasInput |-> FALSE, input |-> ""]

----------------------------------------------------------------------------
(* Step executor: the defer-dispatch protocol *)

\* the value of member key of a JSON object
Member(members, key) ==
    members[CHOOSE i \in 1..Len(members) : members[i][1] = key][2]

HasMember(members, key) == \E i \in 1..Len(members) : members[i][1] = key

\* the output parsed as a directive: an object with the required field
\* "step" and the optional field "input"
ParseDirective(out) ==
    IF out.kind = "object" /\ HasMember(out.members, "step")
    THEN [ok |-> TRUE,
          step |-> Member(out.members, "step"),
          hasInput |-> HasMember(out.members, "input"),
          input |-> IF HasMember(out.members, "input")
                    THEN Member(out.members, "input") ELSE ""]
    ELSE NoDirective

\* faulty variant: every step a directive names is dispatched, deferred or not
DispatchesAnyStep(p, d) ==
    d.ok /\ d.step \in DOMAIN p.deferred \cup DOMAIN p.steps

\* the directive is dispatched: it parsed and names a deferred step
Dispatches(p, d) == d.ok /\ d.step \in DOMAIN p.deferred

\* the step that follows step name in declared order
Following(p, name) ==
    LET i == CHOOSE k \in 1..Len(p.order) : p.order[k] = name
    IN  IF i < Len(p.order) THEN p.order[i + 1] ELSE END

\* normal progression from a regular step: its declared next step, or the
\* step that follows it
Successor(p, name) ==
    IF p.steps[name].next # "" THEN p.steps[name].next ELSE Following(p, name)

\* faulty variant: progression resumes from the deferred step's next step
ResumeFromDeferred(p, original, d) ==
    IF p.deferred[d].next # "" THEN p.deferred[d].next
    ELSE Successor(p, original)

\* where progression resumes once deferred step d, dispatched by the
\* regular step original, is done
ResumeFrom(p, original, d) == Successor(p, original)

\* faulty variant: the deferred step always runs on its declared input
DeclaredInputOnly(p, d) == p.deferred[d.step].input

\* the input the deferred step runs on
DeferredInput(p, d) ==
    IF d.hasInput THEN d.input ELSE p.deferred[d.step].input

\* the caller starts a run
StartPipeline ==
    /\ epc = "idle"
    /\ \E p \in Pipelines :
        /\ pipeline' = p
        /\ current' = p.order[1]
    /\ epc' = "run"
    /\ UNCHANGED <<pending, resumeAt, trace, failed,
                   chunkVars, regVars, callerVars, resVars, lockVars>>

\* the executor runs the current regular step and looks at its output
ExecuteStep ==
    /\ epc = "run"
    /\ current # END
    /\ Len(trace) < MaxSteps
    /\ \E out \in StepOutputs :
        /\ trace' = Append(trace, [step |-> current, deferred |-> FALSE,
                                   input |-> pipeline.steps[current].input,
                                   output |-> out])
        /\ IF Dispatches(pipeline, ParseDirective(out))
           THEN /\ pending' = ParseDirective(out)
                /\ resumeAt' = ResumeFrom(pipeline, current,
                                          ParseDirective(out).step)
                /\ epc' = "dispatch"
                /\ current' = current
           ELSE /\ current' = Successor(pipeline, current)
                /\ epc' = IF Successor(pipeline, current) = END
                          THEN "done" ELSE "run"
                /\ UNCHANGED <<pending, resumeAt>>
    /\ UNCHANGED <<pipeline, failed, chunkVars, regVars, callerVars, resVars, lockVars>>

\* the executor runs the deferred step the directive names, looks at its
\* output, and resumes
ExecuteDeferred ==
    /\ epc = "dispatch"
    /\ Len(trace) < MaxSteps
    /\ \E out \in StepOutputs :
        /\ trace' = Append(trace, [step |-> pending.step, deferred |-> TRUE,
                                   input |-> DeferredInput(pipeline, pending),
                                   output |-> out])
        /\ IF Dispatches(pipeline, ParseDirective(out))
           THEN /\ pending' = ParseDirective(out)
                /\ UNCHANGED <<epc, current, resumeAt>>
           ELSE /\ pending' = NoDirective
                /\ current' = resumeAt
                /\ epc' = IF resumeAt = END THEN "done" ELSE "run"
                /\ UNCHANGED resumeAt
    /\ UNCHANGED <<pipeline, failed, chunkVars, regVars, callerVars, resVars, lockVars>>

----------------------------------------------------------------------------
(* Registry under concurrent callers: sync.RWMutex and the calls, step by step *)

Threads == 1..MaxThreads

\* the calls the threads make
NoCall == [kind |-> "none", provider |-> "", names |-> <<>>]
Calls ==
    {[kind |-> "RegisterModels", provider |-> "ollama", names |-> <<K2DASH>>],
     [kind |-> "RegisterFamilies", provider |-> "moonshot", names |-> <<K2DASH>>],
     [kind |-> "ValidateModel", provider |-> "ollama", names |-> <<K2DASH>>],
     [kind |-> "GetFamilies", provider |-> "moonshot", names |-> <<>>]}

\* the calls that take mu.Lock(); the others take mu.RLock()
IsWriter(c) == c.kind \in {"RegisterModels", "RegisterFamilies"}

NoReturn == [kind |-> "none"]
\* the runtime's "concurrent map read and map write"
Fatal == [kind |-> "fatal"]

\* sync.RWMutex: the writer that holds it (0: none), the readers that hold
\* it, the writer that has called Lock and waits for the readers to leave
Unlocked == [writer |-> 0, readers |-> {}, waiting |-> 0]

\* RLock returns: no writer holds the mutex and none waits for it
RLockReturns(m) == m.writer = 0 /\ m.waiting = 0

\* Lock is entered by one writer at a time
LockEntered(m) == m.writer = 0 /\ m.waiting = 0

\* faulty variant: Lock that does not wait for the readers (RLock taken
\* in its place)
LockIgnoresReaders(m) == TRUE

\* Lock returns: the readers that held the mutex have all left
LockReturns(m) == m.readers = {}

\* what a reading call returns on the maps ms and fs
ReadOn(ms, fs, c) ==
    IF c.kind = "ValidateModel"
    THEN [kind |-> "bool", value |-> ValidateIn(ms, fs, c.provider, c.names[1])]
    ELSE IF c.kind = "GetModels"
    THEN [kind |-> "list", value |-> Lookup(ms, c.provider)]
    ELSE [kind |-> "list", value |-> Lookup(fs, c.provider)]

\* a thread calls the registry
Call(t) ==
    /\ tpc[t] = "idle"
    /\ \E c \in Calls :
        /\ IsWriter(c) => registered < MaxRegister
        /\ top' = [top EXCEPT ![t] = c]
        /\ registered' = IF IsWriter(c) THEN registered + 1 ELSE registered
    /\ tpc' = [tpc EXCEPT ![t] = "lock"]
    /\ wholes' = wholes \cup {<<models, families>>}
    /\ UNCHANGED <<tres, mu, torn, models, families, verdict, chunkVars,
                   callerVars, resVars, execVars>>

\* r.mu.RLock() returns
RLock(t) ==
    /\ tpc[t] = "lock"
    /\ ~IsWriter(top[t])
    /\ RLockReturns(mu)
    /\ mu' = [mu EXCEPT !.readers = @ \cup {t}]
    /\ tpc' = [tpc EXCEPT ![t] = "in"]
    /\ UNCHANGED <<top, tres, torn, wholes, chunkVars, regVars, callerVars,
                   resVars, execVars>>

\* r.mu.Lock() is entered: later RLock calls wait
LockEnter(t) ==
    /\ tpc[t] = "lock"
    /\ IsWriter(top[t])
    /\ LockEntered(mu)
    /\ mu' = [mu EXCEPT !.waiting = t]
    /\ tpc' = [tpc EXCEPT ![t] = "wait"]
    /\ UNCHANGED <<top, tres, torn, wholes, chunkVars, regVars, callerVars,
                   resVars, execVars>>

\* r.mu.Lock() returns
Lock(t) ==
    /\ tpc[t] = "wait"
    /\ LockReturns(mu)
    /\ mu' = [mu EXCEPT !.writer = t, !.waiting = 0]
    /\ tpc' = [tpc EXCEPT ![t] = "in"]
    /\ UNCHANGED <<top, tres, torn, wholes, chunkVars, regVars, callerVars,
                   resVars, execVars>>

\* the body of a reading call; a read of a map under assignment is a data
\* race, which ends the program or returns whatever the maps hold
ReadBody(t) ==
    /\ tpc[t] = "in"
    /\ ~IsWriter(top[t])
    /\ tres[t] = NoReturn
    /\ \E r \in IF torn THEN {Fatal, ReadOn(models, families, top[t])}
                ELSE {ReadOn(models, families, top[t])} :
        tres' = [tres EXCEPT ![t] = r]
    /\ UNCHANGED <<tpc, top, mu, torn, wholes, chunkVars, regVars,
                   callerVars, resVars, execVars>>

\* the body of a Register call begins its map assignment
WriteBegin(t) ==
    /\ tpc[t] = "in"
    /\ IsWriter(top[t])
    /\ ~torn
    /\ tres[t] = NoReturn
    /\ torn' = TRUE
    /\ tpc' = [tpc EXCEPT ![t] = "assign"]
    /\ UNCHANGED <<top, tres, mu, wholes, chunkVars, regVars, callerVars,
                   resVars, execVars>>

\* the map assignment is done
WriteEnd(t) ==
    /\ tpc[t] = "assign"
    /\ IF top[t].kind = "RegisterModels"
       THEN /\ models' = Appended(models, top[t].provider,
                                  StoredNames(top[t].names))
            /\ wholes' = wholes \cup
                  {<<Appended(models, top[t].provider,
                              StoredNames(top[t].names)), families>>}
            /\ UNCHANGED families
       ELSE /\ families' = Appended(families, top[t].provider, top[t].names)
            /\ wholes' = wholes \cup
                  {<<models, Appended(families, top[t].provider,
                                      top[t].names)>>}
            /\ UNCHANGED models
    /\ torn' = FALSE
    /\ tres' = [tres EXCEPT ![t] = [kind |-> "void"]]
    /\ tpc' = [tpc EXCEPT ![t] = "in"]
    /\ UNCHANGED <<top, mu, verdict, registered, chunkVars, callerVars,
                   resVars, execVars>>

\* the deferred r.mu.Unlock() / r.mu.RUnlock(), and the return
Unlock(t) ==
    /\ tpc[t] = "in"
    /\ tres[t] # NoReturn
    /\ mu' = IF IsWriter(top[t])
             THEN [mu EXCEPT !.writer = 0]
             ELSE [mu EXCEPT !.readers = @ \ {t}]
    /\ tpc' = [tpc EXCEPT ![t] = "idle"]
    /\ top' = [top EXCEPT ![t] = NoCall]
    /\ tres' = [tres EXCEPT ![t] = NoReturn]
    /\ UNCHANGED <<torn, wholes, chunkVars, regVars, callerVars, resVars,
                   execVars>>

----------------------------------------------------------------------------
(* Specifications *)

\* before the first SplitFile call; no registry
ChunkInit ==
    /\ pc = "idle"
    /\ arg = NoConfig
    /\ config = NoConfig
    /\ file = NoFile
    /\ tempDir = ""
    /\ buffer = <<>>
    /\ count = 0
    /\ start = 0
    /\ chunkIndex = 0
    /\ chunkPaths = <<>>
    /\ spans = <<>>
    /\ result = NIL
    /\ err = "nil"
    /\ dirs = {OtherDir}
    /\ files = [d \in {OtherDir} |-> OtherFiles]
    /\ last = NIL
    /\ models = <<>>
    /\ families = <<>>
    /\ verdict = NoVerdict
    /\ registered = 0
    /\ held = NoHeld
    /\ rpc = "idle"
    /\ asked = <<>>
    /\ supports = {}
    /\ outcome = NoOutcome
    /\ probed = FALSE
    /\ available = FALSE
    /\ next = 0
    /\ detected = ""
    /\ epc = "idle"
    /\ pipeline = NoPipeline
    /\ current = END
    /\ pending = NoDirective
    /\ resumeAt = END
    /\ trace = <<>>
    /\ failed = FALSE
    /\ tpc = [t \in Threads |-> "idle"]
    /\ top = [t \in Threads |-> NoCall]
    /\ tres = [t \in Threads |-> NoReturn]
    /\ mu = Unlocked
    /\ torn = FALSE
    /\ wholes = {}

\* NewModelRegistry: the maps after initializeDefaultModels; the chunker idle
RegistryInit ==
    /\ models = SeedModels
    /\ families = SeedFamilies
    /\ verdict = NoVerdict
    /\ registered = 0
    /\ held = NoHeld
    /\ rpc = "idle"
    /\ asked = <<>>
    /\ supports = {}
    /\ outcome = NoOutcome
    /\ probed = FALSE
    /\ available = FALSE
    /\ next = 0
    /\ detected = ""
    /\ epc = "idle"
    /\ pipeline = NoPipeline
    /\ current = END
    /\ pending = NoDirective
    /\ resumeAt = END
    /\ trace = <<>>
    /\ failed = FALSE
    /\ tpc = [t \in Threads |-> "idle"]
    /\ top = [t \in Threads |-> NoCall]
    /\ tres = [t \in Threads |-> NoReturn]
    /\ mu = Unlocked
    /\ torn = FALSE
    /\ wholes = {}
    /\ pc = "idle"
    /\ arg = NoConfig
    /\ config = NoConfig
    /\ file = NoFile
    /\ tempDir = ""
    /\ buffer = <<>>
    /\ count = 0
    /\ start = 0
    /\ chunkIndex = 0
    /\ chunkPaths = <<>>
    /\ spans = <<>>
    /\ result = NIL
    /\ err = "nil"
    /\ dirs = {OtherDir}
    /\ files = [d \in {OtherDir} |-> OtherFiles]
    /\ last = NIL

ChunkNext == SplitFile \/ MkdirTemp \/ ScanFile \/ EmitChunk \/ CleanupChunks

\* before the first DetectProvider call; the chunker idle, no registry
ResolverInit ==
    /\ rpc = "idle"
    /\ asked = <<>>
    /\ supports = {}
    /\ outcome = NoOutcome
    /\ probed = FALSE
    /\ available = FALSE
    /\ next = 0
    /\ detected = ""
    /\ epc = "idle"
    /\ pipeline = NoPipeline
    /\ current = END
    /\ pending = NoDirective
    /\ resumeAt = END
    /\ trace = <<>>
    /\ failed = FALSE
    /\ tpc = [t \in Threads |-> "idle"]
    /\ top = [t \in Threads |-> NoCall]
    /\ tres = [t \in Threads |-> NoReturn]
    /\ mu = Unlocked
    /\ torn = FALSE
    /\ wholes = {}
    /\ models = <<>>
    /\ families = <<>>
    /\ verdict = NoVerdict
    /\ registered = 0
    /\ held = NoHeld
    /\ pc = "idle"
    /\ arg = NoConfig
    /\ config = NoConfig
    /\ file = NoFile
    /\ tempDir = ""
    /\ buffer = <<>>
    /\ count = 0
    /\ start = 0
    /\ chunkIndex = 0
    /\ chunkPaths = <<>>
    /\ spans = <<>>
    /\ result = NIL
    /\ err = "nil"
    /\ dirs = {OtherDir}
    /\ files = [d \in {OtherDir} |-> OtherFiles]
    /\ last = NIL

\* before a run; the chunker and the resolver idle, no registry
ExecutorInit ==
    /\ rpc = "idle"
    /\ asked = <<>>
    /\ supports = {}
    /\ outcome = NoOutcome
    /\ probed = FALSE
    /\ available = FALSE
    /\ next = 0
    /\ detected = ""
    /\ epc = "idle"
    /\ pipeline = NoPipeline
    /\ current = END
    /\ pending = NoDirective
    /\ resumeAt = END
    /\ trace = <<>>
    /\ failed = FALSE
    /\ tpc = [t \in Threads |-> "idle"]
    /\ top = [t \in Threads |-> NoCall]
    /\ tres = [t \in Threads |-> NoReturn]
    /\ mu = Unlocked
    /\ torn = FALSE
    /\ wholes = {}
    /\ models = <<>>
    /\ families = <<>>
    /\ verdict = NoVerdict
    /\ registered = 0
    /\ held = NoHeld
    /\ pc = "idle"
    /\ arg = NoConfig
    /\ config = NoConfig
    /\ file = NoFile
    /\ tempDir = ""
    /\ buffer = <<>>
    /\ count = 0
    /\ start = 0
    /\ chunkIndex = 0
    /\ chunkPaths = <<>>
    /\ spans = <<>>
    /\ result = NIL
    /\ err = "nil"
    /\ dirs = {OtherDir}
    /\ files = [d \in {OtherDir} |-> OtherFiles]
    /\ last = NIL

ExecutorNext == StartPipeline \/ ExecuteStep \/ ExecuteDeferred

ResolverNext == DetectProvider \/ ProbeLocal \/ TryHosted \/ Fallback

\* NewModelRegistry, and threads about to call the registry
ConcurrentInit ==
    /\ models = SeedModels
    /\ families = SeedFamilies
    /\ verdict = NoVerdict
    /\ registered = 0
    /\ held = NoHeld
    /\ rpc = "idle"
    /\ asked = <<>>
    /\ supports = {}
    /\ outcome = NoOutcome
    /\ probed = FALSE
    /\ available = FALSE
    /\ next = 0
    /\ detected = ""
    /\ epc = "idle"
    /\ pipeline = NoPipeline
    /\ current = END
    /\ pending = NoDirective
    /\ resumeAt = END
    /\ trace = <<>>
    /\ failed = FALSE
    /\ tpc = [t \in Threads |-> "idle"]
    /\ top = [t \in Threads |-> NoCall]
    /\ tres = [t \in Threads |-> NoReturn]
    /\ mu = Unlocked
    /\ torn = FALSE
    /\ wholes = {}
    /\ pc = "idle"
    /\ arg = NoConfig
    /\ config = NoConfig
    /\ file = NoFile
    /\ tempDir = ""
    /\ buffer = <<>>
    /\ count = 0
    /\ start = 0
    /\ chunkIndex = 0
    /\ chunkPaths = <<>>
    /\ spans = <<>>
    /\ result = NIL
    /\ err = "nil"
    /\ dirs = {OtherDir}
    /\ files = [d \in {OtherDir} |-> OtherFiles]
    /\ last = NIL

ConcurrentNext ==
    \E t \in Threads :
        \/ Call(t) \/ RLock(t) \/ LockEnter(t) \/ Lock(t)
        \/ ReadBody(t) \/ WriteBegin(t) \/ WriteEnd(t) \/ Unlock(t)

RegistryNext == RegisterModels \/ RegisterFamilies \/ ValidateModelCall

\* Register calls, then the caller's ValidateModel call or its Get call, and
\* after a Get call the caller's writes and more Register calls
RegistryGetNext ==
    \/ ~verdict.asked /\ RegisterModels
    \/ ~verdict.asked /\ RegisterFamilies
    \/ held = NoHeld /\ ValidateModelCall
    \/ GetModels \/ GetFamilies \/ GetAllModels
    \/ CallerSetElement \/ CallerDeleteKey

\* the chunker alone
SpecChunk == ChunkInit /\ [][ChunkNext]_vars

\* the registry alone
SpecRegistry == RegistryInit /\ [][RegistryNext]_vars

\* the step executor alone
SpecExecutor == ExecutorInit /\ [][ExecutorNext]_vars

\* the registry under concurrent callers
SpecConcurrent == ConcurrentInit /\ [][ConcurrentNext]_vars

\* the resolver alone
SpecResolver == ResolverInit /\ [][ResolverNext]_vars

\* the registry and a caller of its Get operations
SpecRegistryGet == RegistryInit /\ [][RegistryGetNext]_vars

----------------------------------------------------------------------------
(* Chunker: what the claims speak of *)

\* validateConfig accepted the caller's config
Accepted == pc # "idle" /\ validateConfig(arg).err = "nil"

\* SplitFile returned a result
Succeeded == pc = "done" /\ err = "nil" /\ result # NIL

\* the scratch directory of the result still exists
Kept == Succeeded /\ result.TempDir \in dirs

\* the unit sequence of the input under the accepted method
InputUnits == Units(arg.By, file)

\* content of the i-th returned path
Content(i) == files[result.ChunkPaths[i][1]][result.ChunkPaths[i][2]]

\* the contents of the returned paths, in order
Contents == [i \in 1..Len(result.ChunkPaths) |-> Content(i)]

\* the unit sequence of a chunk artifact, read the way the method reads
UnitsOfContent(c) == Units(arg.By, [exists |-> TRUE, data |-> c])

RECURSIVE Concat(_)
Concat(seqs) ==
    IF seqs = <<>> THEN <<>> ELSE Head(seqs) \o Concat(Tail(seqs))

\* the separator of the method: a newline, a space, nothing between bytes
NaturalSeparator ==
    IF ToLower(arg.By) = ByLines THEN <<NL>>
    ELSE IF ToLower(arg.By) = ByTokens THEN <<SP>>
    ELSE <<>>

\* ceil(a / b) for a >= 0, b >= 1
CeilDiv(a, b) == CHOOSE q \in 0..a : q * b >= a /\ (q - 1) * b < a

Min(a, b) == IF a < b THEN a ELSE b

\* the same letter, in whatever case
SameLetter(a, b) ==
    a = b \/ \E k \in 1..26 : {a, b} = {UpperCase[k], LowerCase[k]}

\* by is lines, bytes or tokens, compared case-insensitively
Recognised(by) ==
    \E m \in {ByLines, ByBytes, ByTokens} :
        Len(m) = Len(by) /\ \A i \in 1..Len(m) : SameLetter(by[i], m[i])

ConfigErrors == {"invalid split method", "chunk size must be greater than 0"}

----------------------------------------------------------------------------
(* Chunker: claims *)

\* C1 (as claimed): whenever SplitFile succeeds on an input of total > 0
\* units with 0 <= overlap < size, every unit of the input lies in an
\* emitted chunk and the last emitted chunk ends at the last unit.
C1_NoSilentTruncation ==
    (Succeeded /\ count > 0 /\ config.Overlap < config.Size) =>
        /\ spans # <<>>
        /\ spans[Len(spans)][2] = count
        /\ \A u \in 0..(count - 1) :
              \E i \in 1..Len(spans) : spans[i][1] <= u /\ u < spans[i][2]

\* C2 (as claimed): a config with overlap >= size is rejected or clamped
\* to an overlap < size, so that in every split that proceeds the start
\* of each chunk is beyond the start of the chunk before it.
C2_OverlapBelowSize ==
    Accepted =>
        /\ config.Overlap < config.Size
        /\ \A i \in 1..(Len(spans) - 1) : spans[i + 1][1] > spans[i][1]

\* C3: when the input has total > 0 units and ceil(total / size) exceeds
\* maxChunks (100 when not positive), SplitFile never enters the loop and
\* writes no chunk; it returns the limit error and no result, and its
\* scratch directory is gone when it returns.
C3_LimitFailsFast ==
    (/\ Accepted
     /\ pc # "mkdir"
     /\ file.exists
     /\ Len(InputUnits) > 0
     /\ CeilDiv(Len(InputUnits), arg.Size)
            > (IF arg.MaxChunks <= 0 THEN 100 ELSE arg.MaxChunks)) =>
        /\ pc \in {"split", "done"}
        /\ spans = <<>>
        /\ tempDir \in dirs => DOMAIN files[tempDir] = {}
        /\ pc = "done" =>
              /\ err = "exceeding the maximum"
              /\ result = NIL
              /\ tempDir \notin dirs

C3_Witness ==
    /\ pc = "done"
    /\ err = "exceeding the maximum"
    /\ tempDir # ""
    /\ tempDir \notin dirs
    /\ last = NIL

C5_ChunkSpans ==
    (Succeeded /\ config.Overlap < config.Size) =>
        LET step == config.Size - config.Overlap
            total == Len(InputUnits)
            n == Len(result.ChunkPaths)
        IN  /\ Len(spans) = n
            /\ result.TotalChunks = n
            /\ \A i \in 1..n :
                  LET lo == (i - 1) * step
                      hi == Min(lo + config.Size, total)
                  IN  /\ spans[i] = <<lo, hi>>
                      /\ result.ChunkPaths[i] = <<result.TempDir, i - 1>>
                      /\ Kept =>
                            Content(i) =
                                IF ToLower(arg.By) = ByBytes
                                THEN SubSeq(file.data, lo + 1, hi)
                                ELSE Join(SubSeq(InputUnits, lo + 1, hi),
                                          NaturalSeparator)
            /\ \A i \in 1..(n - 1) :
                  spans[i][2] - spans[i + 1][1] = config.Overlap
            /\ (file = ScenarioFile /\ arg = ScenarioConfig) =>
                  spans = << <<0, 10>>, <<8, 18>>, <<16, 25>> >>

C5_Witness ==
    /\ Kept
    /\ file = ScenarioFile
    /\ arg = ScenarioConfig
    /\ Len(result.ChunkPaths) = 3
    /\ Content(3) = SubSeq(ScenarioFile.data, 49, 74)

\* C6: for an existing input of zero units (no line, no byte, no token)
\* and any config validateConfig accepts, SplitFile succeeds and returns
\* exactly one chunk, chunk_0, which is empty.
C6_EmptyInputOneChunk ==
    (/\ Accepted
     /\ pc \notin {"mkdir", "split"}
     /\ file.exists
     /\ Len(InputUnits) = 0) =>
        /\ Succeeded
        /\ result = [ChunkPaths |-> <<ChunkPath(tempDir, 0)>>,
                     TempDir |-> tempDir, TotalChunks |-> 1]
        /\ tempDir \in dirs => files[tempDir] = (0 :> <<>>)

C6_Witness ==
    /\ Kept
    /\ file.data # <<>>
    /\ Len(InputUnits) = 0
    /\ arg.Overlap >= arg.Size
    /\ arg.MaxChunks = 1
    /\ files[tempDir] = (0 :> <<>>)

\* C7: a method that is not lines/bytes/tokens in any letter case, or a
\* size <= 0, makes SplitFile return a configuration error with no result
\* and no scratch directory created; otherwise there is no configuration
\* error, a negative overlap is taken as 0 and a maxChunks <= 0 as 100.
C7_ValidateBeforeStorage ==
    pc # "idle" =>
        IF ~Recognised(arg.By) \/ arg.Size <= 0
        THEN /\ pc = "done"
             /\ err \in ConfigErrors
             /\ result = NIL
             /\ tempDir = ""
             /\ dirs = {OtherDir}
             /\ spans = <<>>
        ELSE /\ err \notin ConfigErrors
             /\ config = [By |-> arg.By,
                          Size |-> arg.Size,
                          Overlap |-> IF arg.Overlap < 0 THEN 0
                                      ELSE arg.Overlap,
                          MaxChunks |-> IF arg.MaxChunks <= 0 THEN 100
                                        ELSE arg.MaxChunks]

C7_Witness ==
    /\ Kept
    /\ arg.By = ByMixed
    /\ arg.Overlap < 0
    /\ arg.MaxChunks <= 0
    /\ config.Overlap = 0
    /\ config.MaxChunks = 100

\* a step of CleanupChunks (no other step leaves the caller where it is)
CleanupStep == pc \in {"idle", "done"} /\ pc' = pc /\ last' # NIL

\* C8: CleanupChunks returns no error; given a result whose scratch
\* directory exists it removes that directory with everything in it and
\* nothing else; given nil, a result without TempDir, or a result released
\* before, it changes nothing.
C8_ReleaseIdempotent ==
    [][CleanupStep =>
        LET r == last'.arg
        IN  /\ last'.err = "nil"
            /\ IF r # NIL /\ r.TempDir # "" /\ r.TempDir \in dirs
               THEN /\ dirs' = dirs \ {r.TempDir}
                    /\ files' = [d \in dirs \ {r.TempDir} |-> files[d]]
               ELSE /\ dirs' = dirs
                    /\ files' = files]_vars

C8_Witness ==
    /\ Succeeded
    /\ last # NIL
    /\ last.arg = result
    /\ ~last.existed
    /\ result.TempDir \notin dirs
    /\ dirs = {OtherDir}
    /\ files[OtherDir] = OtherFiles

\* C18: SplitFile comes to an end for every input and every config that
\* validateConfig accepts, also with overlap >= size, where start does not
\* advance: the loop always has a next pass or its exit, it writes at
\* most MaxChunks chunks (one per pass), and the call ends in a return (or,
\* with overlap > size in lines and tokens mode, in the runtime panic of
\* the negative slice index); a result returned holds at most MaxChunks
\* paths, its TotalChunks is their number, and the files written are
\* chunk_0 .. chunk_(TotalChunks-1), none missing.
C18_SplitTerminates ==
    /\ pc \in {"idle", "mkdir", "split", "loop", "done", "panic"}
    /\ pc = "mkdir" => ENABLED MkdirTemp
    /\ pc = "loop" => ENABLED EmitChunk
    /\ pc \in {"loop", "panic"} => chunkIndex = Len(spans)
    /\ pc \in {"loop", "done", "panic"} =>
          /\ Len(chunkPaths) = Len(spans)
          /\ Len(spans) <= config.MaxChunks
    /\ Succeeded =>
          /\ Len(result.ChunkPaths) <= config.MaxChunks
          /\ result.TotalChunks = Len(result.ChunkPaths)
          /\ \A i \in 1..result.TotalChunks :
                result.ChunkPaths[i] = <<result.TempDir, i - 1>>
          /\ Kept => DOMAIN files[result.TempDir] = 0..(result.TotalChunks - 1)

\* overlap = size on the four-line file: every chunk starts at 0 and the
\* loop stops at the limit
C18_Witness ==
    /\ Succeeded
    /\ file = LongFile
    /\ ToLower(config.By) = ByLines
    /\ config.Overlap = config.Size
    /\ config.MaxChunks = 2
    /\ spans = << <<0, 2>>, <<0, 2>> >>
    /\ result.TotalChunks = 2

----------------------------------------------------------------------------
(* Registry: claims *)

\* the elements of a sequence
Seq2Set(q) == {q[i] : i \in 1..Len(q)}

\* n differs from e only in letter case and leading/trailing white space
IsVariant(n, e) == ToLower(TrimSpace(n)) = ToLower(TrimSpace(e))

\* e is among the exact names registered for provider
RegisteredName(provider, e) ==
    \E i \in 1..Len(Lookup(models, provider)) : Lookup(models, provider)[i] = e

\* f is among the families registered for provider
RegisteredFamily(provider, f) ==
    \E i \in 1..Len(Lookup(families, provider)) :
        Lookup(families, provider)[i] = f

\* C9 (as claimed): for any exact name registered for a provider, whatever
\* its letter case, ValidateModel is true for the name verbatim and for
\* every variant of it in letter case or surrounding white space.
C9_RegisteredNameValidates ==
    verdict.asked =>
        \A i \in 1..Len(Lookup(models, verdict.provider)) :
            IsVariant(verdict.name, Lookup(models, verdict.provider)[i])
                => verdict.ok

\* C10: ValidateModel(provider, name) is true exactly when the trimmed,
\* lower-cased name equals an exact name registered for that provider or
\* begins with a family registered for that provider; on the registry as
\* constructed, "not-moonshot-v1", "", "invalid-model" and a name of
\* another provider ("gpt-4o") are not valid for moonshot.
C10_ValidateExactly ==
    verdict.asked =>
        LET n == ToLower(TrimSpace(verdict.name))
            p == verdict.provider
        IN  /\ verdict.ok <=>
                \/ RegisteredName(p, n)
                \/ \E f \in Seq2Set(Lookup(families, p)) :
                      /\ Len(f) <= Len(n)
                      /\ \A k \in 1..Len(f) : n[k] = f[k]
            /\ (/\ p = "moonshot"
                /\ Lookup(models, p) = SeedModels.moonshot
                /\ Lookup(families, p) = SeedFamilies.moonshot
                /\ \E b \in {NOTMOONSHOT, <<>>, INVALID, GPT4O} :
                      verdict.name \in Variants(b))
                  => ~verdict.ok

C10_Witness ==
    /\ verdict.asked
    /\ verdict.provider = "moonshot"
    /\ verdict.name \in Variants(K2DASHX)
    /\ ~verdict.ok
    /\ RegisteredFamily("ollama", K2DASH)
    /\ ~RegisteredFamily("moonshot", K2DASH)

\* sequence a is a prefix of sequence b
IsPrefix(a, b) == Len(a) <= Len(b) /\ SubSeq(b, 1, Len(a)) = a

\* every list of map m is a prefix of the list map n has for that provider
GrowsTo(m, n) ==
    \A p \in DOMAIN m : p \in DOMAIN n /\ IsPrefix(m[p], n[p])

\* a step in which the caller writes to the value it holds
CallerStep == held'.writes # held.writes

\* a step of RegisterModels or RegisterFamilies
RegisterStep == registered' # registered

\* every ValidateModel call answers in the next state as it does in this one
SameVerdicts ==
    \E ms \in {models'}, fs \in {families'} :
        \A p \in CallProviders, n \in BaseNames :
            ValidateIn(ms, fs, p, n) = ValidateModel(p, n)

\* every ValidateModel call that answers true in this state does so in the
\* next
VerdictsKept ==
    \E ms \in {models'}, fs \in {families'} :
        \A p \in CallProviders, n \in BaseNames :
            ValidateModel(p, n) => ValidateIn(ms, fs, p, n)

\* C11: across the Register, ValidateModel and Get operations every list of
\* names and every list of families keeps its previous value as a prefix;
\* only a Register call changes a list (it appends its arguments, repeated
\* or not) and ValidateModel and the Get operations change nothing; so a
\* ValidateModel(provider, name) that is true stays true.
C11_AppendOnly ==
    [][~CallerStep =>
        /\ GrowsTo(models, models') /\ GrowsTo(families, families')
        /\ ~RegisterStep => models' = models /\ families' = families
        /\ RegisterStep =>
              \E p \in CallProviders, names \in RegisterLists :
                  \/ /\ models' = [q \in DOMAIN models \cup {p} |->
                                      IF q = p THEN Lookup(models, p) \o names
                                      ELSE models[q]]
                     /\ families' = families
                  \/ /\ families' = [q \in DOMAIN families \cup {p} |->
                                      IF q = p THEN Lookup(families, p) \o names
                                      ELSE families[q]]
                     /\ models' = models
        /\ RegisterStep => VerdictsKept
    ]_vars

\* the same list registered twice for ollama, a Get call made in between,
\* and the name still valid
C11_Witness ==
    /\ registered = 2
    /\ Lookup(models, "ollama") = <<K2DASH, K2DASH>>
    /\ held.kind = "GetModels"
    /\ held.value = [q \in {"ollama"} |-> SliceOf(<<K2DASH>>)]
    /\ ValidateModel("ollama", K2DASH)

\* C12: GetAllModels returns a copy: a write the caller makes to the map it
\* got or to one of its lists changes neither the registry's maps nor the
\* answer of any ValidateModel call, and a Register call made afterwards
\* does not change the value the caller holds.
C12_SnapshotIsolated ==
    [][held.kind = "GetAllModels" =>
        /\ CallerStep =>
              models' = models /\ families' = families /\ SameVerdicts
        /\ RegisterStep => held' = held
    ]_vars

\* the caller wrote to a list GetAllModels returned and a Register call
\* has since appended to the registry's list
C12_Witness ==
    /\ held.kind = "GetAllModels"
    /\ held.writes > 0
    /\ "moonshot" \in DOMAIN held.value
    /\ INVALID \in Seq2Set(held.value["moonshot"].items)
    /\ INVALID \notin Seq2Set(models["moonshot"])
    /\ Len(models["moonshot"]) > Len(held.value["moonshot"].items)

----------------------------------------------------------------------------
(* Registry under concurrent callers: claims *)

\* the thread is inside the critical section of its call
Inside(t) == tpc[t] \in {"in", "assign"}

Writers == {t \in Threads : IsWriter(top[t])}
Readers == {t \in Threads : top[t] # NoCall /\ ~IsWriter(top[t])}

\* the thread's reading call has its result
Returned(t) == t \in Readers /\ tres[t] # NoReturn

\* C17: under every interleaving of register, validate and get calls on one
\* registry, a writer is never inside its critical section together with a
\* reader or another writer, the mutex records exactly the threads that
\* are inside, no map is read while it is assigned, and every result of a
\* validate or get call is the result on a state of the registry in which
\* each register call is wholly applied or not applied at all.
C17_WritersExclusive ==
    /\ \A t \in Writers : Inside(t) => \A u \in Threads \ {t} : ~Inside(u)
    /\ \A t \in Threads : Inside(t) =>
          IF IsWriter(top[t]) THEN mu.writer = t ELSE t \in mu.readers
    /\ torn => \A t \in Readers : ~Inside(t)
    /\ \A t \in Threads : Returned(t) =>
          /\ tres[t] # Fatal
          /\ \E w \in wholes : tres[t] = ReadOn(w[1], w[2], top[t])

\* two readers are inside their critical sections at once, one of them with
\* a result that a finished Register call made, while a writer waits for
\* them to leave
C17_Witness ==
    \E t \in Readers, u \in Readers, w \in Writers :
        /\ t # u
        /\ Inside(t) /\ Inside(u)
        /\ tpc[w] = "wait"
        /\ tres[t] = [kind |-> "bool", value |-> TRUE]
        /\ top[t].provider = "ollama"

----------------------------------------------------------------------------
(* Resolver: claims *)

\* the order of precedence the claims state
FixedOrder ==
    <<"google", "anthropic", "xai", "deepseek", "moonshot", "openai">>

\* some hosted provider supports the name
AnyHosted(sup) == \E i \in 1..Len(FixedOrder) : FixedOrder[i] \in sup

\* the first provider of the stated order that supports the name
FirstHosted(sup) ==
    FixedOrder[CHOOSE i \in 1..Len(FixedOrder) :
                  /\ FixedOrder[i] \in sup
                  /\ \A j \in 1..(i - 1) : FixedOrder[j] \notin sup]

\* defaultDetectProvider has returned
Resolved == rpc = "done"

\* C13: whenever isModelAvailableLocally reports the model present, the
\* provider returned is the local one, also when hosted providers support
\* the name.
C13_LocalPreferred ==
    (Resolved /\ probed /\ available) => detected = ollamaProvider

\* "LLAMA3" found as "llama3:latest" while google and openai support the
\* name too
C13_Witness ==
    /\ Resolved
    /\ asked = LLAMA3UPPER
    /\ outcome = [kind |-> "ok", models |-> <<TAGOTHER, TAGLATEST>>]
    /\ available
    /\ {"google", "openai"} \subseteq supports
    /\ detected = ollamaProvider

\* C14: when step 1 does not return the local provider (it does not support
\* the name, or the model is not present locally) and some hosted provider
\* supports the name, the provider returned is the first of google,
\* anthropic, xai, deepseek, moonshot, openai that supports it; so a name
\* the local provider supports, not present locally, that a hosted provider
\* supports too, goes to the hosted provider.
C14_HostedPrecedence ==
    (Resolved /\ ~(probed /\ available) /\ AnyHosted(supports))
        => detected = FirstHosted(supports)

\* the local provider supports "llama", the backend lists other models,
\* anthropic and openai support the name: anthropic is returned
C14_Witness ==
    /\ Resolved
    /\ asked = LLAMA
    /\ supports = {ollamaProvider, "anthropic", "openai"}
    /\ outcome.kind = "ok" /\ Len(outcome.models) > 0
    /\ ~available
    /\ detected = "anthropic"

\* C15: every call returns a provider, whatever the request to the local
\* backend came to: a call in flight can always take its next step and the
\* loop index stays within the list; a failed request counts as "not
\* available"; and when no hosted provider supports the name the local
\* provider is returned, the probe having failed or never run.
C15_AlwaysResolves ==
    /\ rpc \in {"probe", "hosted"} => ENABLED ResolverNext
    /\ next <= Len(FixedOrder) + 1
    /\ Resolved =>
          detected \in {"ollama"} \cup {FixedOrder[i] : i \in 1..Len(FixedOrder)}
    /\ (probed /\ outcome.kind # "ok") => ~available
    /\ (Resolved /\ ~AnyHosted(supports)) => detected = ollamaProvider

\* the local provider alone supports the name and the backend does not
\* answer
C15_Witness ==
    /\ Resolved
    /\ supports = {ollamaProvider}
    /\ probed
    /\ outcome.kind = "transport"
    /\ ~available
    /\ detected = ollamaProvider

----------------------------------------------------------------------------
(* Step executor: claims *)

\* output out is a JSON object whose "step" member is d
Names(out, d) ==
    /\ out.kind = "object"
    /\ \E i \in 1..Len(out.members) : out.members[i] = <<"step", d>>

\* output out is a directive for a step of the deferred namespace
Directs(out) == \E d \in DOMAIN pipeline.deferred : Names(out, d)

\* the regular step that was executed last at or before position i
Original(i) ==
    trace[CHOOSE j \in 1..i :
             /\ ~trace[j].deferred
             /\ \A k \in (j + 1)..i : trace[k].deferred].step

====
